---- MODULE Spec2Model ----
(***************************************************************************)
(* Model of the terfer domain crate: Version (version.rs), Instance and    *)
(* InstanceList (instance.rs), Item (item.rs) and Tag (tag.rs).            *)
(*                                                                         *)
(* Option<T> is a sequence of length 0 (None) or 1 (Some(x)).              *)
(* A Result is a string: "Ok" or the name of the error variant.            *)
(* A Zoned datetime is a natural number; Zoned::now() is a read of the     *)
(* system's wall clock, which is not monotonic.                            *)
(***************************************************************************)
EXTENDS Integers, Sequences, FiniteSets, TLC

\* Datetimes are 0..MaxTime.
MaxTime == 1
\* Longest vector handed to InstanceList::new.
MaxInit == 3
\* Longest history: add and the entity operations are not called beyond it.
MaxLen == 4
\* Version components tried by the Version specification: 0..MaxComp and
\* U16_MAX - 1 .. U16_MAX.
MaxComp == 2

\* u16::MAX, the largest value of a Version component (version.rs:6-8).
U16_MAX == 65535

Times == 0..MaxTime

None == <<>>
Some(x) == <<x>>
unwrap_or(o, d) == IF o = None THEN d ELSE o[1]

VersionLevel == {"Major", "Minor", "Patch"}
InstanceType == {"Creation", "Update", "Deletion", "Restoration"}

----------------------------------------------------------------------------
(* version.rs *)

Version_new(major, minor, patch) ==
    [major |-> major, minor |-> minor, patch |-> patch]

\* u16 `+= 1`: the value a build without overflow checks produces.
wrapping_inc(x) == (x + 1) % (U16_MAX + 1)

\* Whether `+= 1` overflows in increment(change): a build with overflow
\* checks panics there.
increment_overflows(self, change) ==
    CASE change = "Major" -> self.major = U16_MAX
      [] change = "Minor" -> self.minor = U16_MAX
      [] change = "Patch" -> self.patch = U16_MAX

increment(self, change) ==
    CASE change = "Major" ->
            [major |-> wrapping_inc(self.major), minor |-> 0, patch |-> 0]
      [] change = "Minor" ->
            [major |-> self.major, minor |-> wrapping_inc(self.minor), patch |-> 0]
      [] change = "Patch" ->
            [major |-> self.major, minor |-> self.minor,
             patch |-> wrapping_inc(self.patch)]

create_child_version(self, change) == increment(self, change)

----------------------------------------------------------------------------
(* instance.rs: Instance *)

create_initial_instance(version_level, now) ==
    [datetime |-> now,
     change_note |-> "Instance Created",
     instance_type |-> "Creation",
     version |-> create_child_version(Version_new(0, 0, 0), version_level)]

\* Faulty variant: a child that is a second Creation.
create_child_instance_as_creation(self, change_note, change_type, now) ==
    [datetime |-> now,
     change_note |-> change_note,
     instance_type |-> "Creation",
     version |-> create_child_version(self.version, change_type)]

create_child_instance(self, change_note, change_type, now) ==
    [datetime |-> now,
     change_note |-> change_note,
     instance_type |-> "Update",
     version |-> create_child_version(self.version, change_type)]

\* Faulty variant: a deletion that raises the minor level only.
create_deletion_instance_minor(self, note, now) ==
    [datetime |-> now,
     change_note |-> unwrap_or(note, "Instance Deleted"),
     instance_type |-> "Deletion",
     version |-> create_child_version(self.version, "Minor")]

create_deletion_instance(self, note, now) ==
    [datetime |-> now,
     change_note |-> unwrap_or(note, "Instance Deleted"),
     instance_type |-> "Deletion",
     version |-> create_child_version(self.version, "Major")]

create_restored_instance(self, note, now) ==
    [datetime |-> now,
     change_note |-> unwrap_or(note, "Instance restored"),
     instance_type |-> "Restoration",
     version |-> create_child_version(self.version, "Major")]

is_type_of(self, instance_type) == self.instance_type = instance_type

\* The Instanced trait: TestInstance and TagInstance keep their Instance in
\* the field instance, ItemInstance in instance_meta.
get_instance(p) ==
    IF "instance_meta" \in DOMAIN p THEN p.instance_meta ELSE p.instance

----------------------------------------------------------------------------
(* instance.rs: InstanceList.  The list is the sequence self.instances. *)

latest(self) == IF Len(self) = 0 THEN None ELSE Some(self[Len(self)])

earliest(self) == IF Len(self) = 0 THEN None ELSE Some(self[1])

len(self) == Len(self)

is_deleted(self) ==
    IF latest(self) = None THEN FALSE
    ELSE is_type_of(get_instance(latest(self)[1]), "Deletion")

\* One step of the stable sort: x goes behind every entry that is not later.
insert_by_datetime(s, x) ==
    LET k == Cardinality({i \in 1..Len(s) :
                 get_instance(s[i]).datetime <= get_instance(x).datetime})
    IN SubSeq(s, 1, k) \o <<x>> \o SubSeq(s, k + 1, Len(s))

RECURSIVE sort_by_datetime(_)
\* Vec::sort_by with the comparison of the datetimes: a stable sort.
sort_by_datetime(values) ==
    IF values = <<>> THEN <<>>
    ELSE insert_by_datetime(sort_by_datetime(SubSeq(values, 1, Len(values) - 1)),
                            values[Len(values)])

\* A variant that keeps the order of the input.
InstanceList_new_unsorted(values) == values

InstanceList_new(values) == sort_by_datetime(values)

\* Faulty variants of add, each a slip the properties below must detect.
\* Without the datetime check:
add_unordered(self, new_instance) ==
    IF /\ is_deleted(self)
       /\ ~is_type_of(get_instance(new_instance), "Restoration")
    THEN [res |-> "CannotAddToDeletedInstanceList", instances |-> self]
    ELSE [res |-> "Ok", instances |-> Append(self, new_instance)]

\* Without the deletion check:
add_unlocked(self, new_instance) ==
    IF /\ latest(self) # None
       /\ get_instance(new_instance).datetime
            < get_instance(latest(self)[1]).datetime
    THEN [res |-> "DatetimeIncorrectlyOrdered", instances |-> self]
    ELSE [res |-> "Ok", instances |-> Append(self, new_instance)]

\* Pushing before the checks, so that a rejected payload stays in the list:
add_push_first(self, new_instance) ==
    IF /\ latest(self) # None
       /\ get_instance(new_instance).datetime
            < get_instance(latest(self)[1]).datetime
    THEN [res |-> "DatetimeIncorrectlyOrdered",
          instances |-> Append(self, new_instance)]
    ELSE IF /\ is_deleted(self)
            /\ ~is_type_of(get_instance(new_instance), "Restoration")
    THEN [res |-> "CannotAddToDeletedInstanceList",
          instances |-> Append(self, new_instance)]
    ELSE [res |-> "Ok", instances |-> Append(self, new_instance)]

\* Overwriting the latest entry of a deleted list instead of pushing:
add_replacing(self, new_instance) ==
    IF /\ latest(self) # None
       /\ get_instance(new_instance).datetime
            < get_instance(latest(self)[1]).datetime
    THEN [res |-> "DatetimeIncorrectlyOrdered", instances |-> self]
    ELSE IF /\ is_deleted(self)
            /\ ~is_type_of(get_instance(new_instance), "Restoration")
    THEN [res |-> "CannotAddToDeletedInstanceList", instances |-> self]
    ELSE IF is_deleted(self)
    THEN [res |-> "Ok",
          instances |-> Append(SubSeq(self, 1, Len(self) - 1), new_instance)]
    ELSE [res |-> "Ok", instances |-> Append(self, new_instance)]

\* Demanding a strictly later datetime:
add_strict(self, new_instance) ==
    IF /\ latest(self) # None
       /\ get_instance(new_instance).datetime
            <= get_instance(latest(self)[1]).datetime
    THEN [res |-> "DatetimeIncorrectlyOrdered", instances |-> self]
    ELSE IF /\ is_deleted(self)
            /\ ~is_type_of(get_instance(new_instance), "Restoration")
    THEN [res |-> "CannotAddToDeletedInstanceList", instances |-> self]
    ELSE [res |-> "Ok", instances |-> Append(self, new_instance)]

\* With the deletion check made before the datetime check:
add_lock_first(self, new_instance) ==
    IF /\ is_deleted(self)
       /\ ~is_type_of(get_instance(new_instance), "Restoration")
    THEN [res |-> "CannotAddToDeletedInstanceList", instances |-> self]
    ELSE IF /\ latest(self) # None
            /\ get_instance(new_instance).datetime
                 < get_instance(latest(self)[1]).datetime
    THEN [res |-> "DatetimeIncorrectlyOrdered", instances |-> self]
    ELSE [res |-> "Ok", instances |-> Append(self, new_instance)]

\* add(&mut self, new_instance): the Result and the list afterwards.
add(self, new_instance) ==
    IF /\ latest(self) # None
       /\ get_instance(new_instance).datetime
            < get_instance(latest(self)[1]).datetime
    THEN [res |-> "DatetimeIncorrectlyOrdered", instances |-> self]
    ELSE IF /\ is_deleted(self)
            /\ ~is_type_of(get_instance(new_instance), "Restoration")
    THEN [res |-> "CannotAddToDeletedInstanceList", instances |-> self]
    ELSE [res |-> "Ok", instances |-> Append(self, new_instance)]

----------------------------------------------------------------------------
(* file_name.rs: FileName::new.  item.rs: ItemInstance and Item.  The ids *)
(* are random UUIDs that nothing reads: they are not carried.  Neither is *)
(* the datetime of a FileName, one more Zoned::now() that no operation of *)
(* Item reads back: a FileName is the version it was made for.            *)

FileName_new(version) == [version |-> version]

\* ItemInstance::new makes two initial Instances: the version of the first
\* names the file (its datetime is dropped with it), the second, made at
\* now, is instance_meta.
ItemInstance_new(now) ==
    LET instance == create_initial_instance("Minor", now)
    IN [file_name |-> FileName_new(instance.version),
        instance_meta |-> create_initial_instance("Minor", now)]

ItemInstance_with_instance(file_name, instance) ==
    [file_name |-> file_name, instance_meta |-> instance]

\* impl From<InstanceError> for ItemError, applied by the ? operator.
ItemError_from(res) ==
    CASE res = "Ok" -> "Ok"
      [] res = "DatetimeIncorrectlyOrdered" -> "Instance(DatetimeIncorrectlyOrdered)"
      [] res = "CannotAddToDeletedInstanceList" ->
            "Instance(CannotAddToDeletedInstanceList)"

Item_new(now) == InstanceList_new(<<ItemInstance_new(now)>>)

\* t1 is the clock read of the new Instance, as in delete and restore.
Item_edit(self, note, version_level, t1) ==
    IF latest(self) = None THEN [res |-> "EditEmptyItem", instances |-> self]
    ELSE LET item_instance == latest(self)[1]
             new_instance == create_child_instance(get_instance(item_instance),
                                                   note, version_level, t1)
             r == add(self, ItemInstance_with_instance(
                                FileName_new(new_instance.version), new_instance))
         IN [res |-> ItemError_from(r.res), instances |-> r.instances]

\* A variant of delete that makes a FileName of the new version.
Item_delete_new_file_name(self, note, t1) ==
    IF latest(self) = None THEN [res |-> "EditEmptyItem", instances |-> self]
    ELSE LET new_instance == create_deletion_instance(
                                 get_instance(latest(self)[1]), note, t1)
             r == add(self, ItemInstance_with_instance(
                                FileName_new(new_instance.version), new_instance))
         IN [res |-> ItemError_from(r.res), instances |-> r.instances]

Item_delete(self, note, t1) ==
    IF latest(self) = None THEN [res |-> "EditEmptyItem", instances |-> self]
    ELSE LET item_instance == latest(self)[1]
             new_instance == create_deletion_instance(get_instance(item_instance),
                                                      note, t1)
             r == add(self, ItemInstance_with_instance(item_instance.file_name,
                                                       new_instance))
         IN [res |-> ItemError_from(r.res), instances |-> r.instances]

\* The source names the method create_restoration_instance, which Instance
\* does not define; the only restoring constructor is create_restored_instance.
Item_restore(self, note, t1) ==
    IF latest(self) = None THEN [res |-> "EditEmptyItem", instances |-> self]
    ELSE LET item_instance == latest(self)[1]
             new_instance == create_restored_instance(get_instance(item_instance),
                                                      note, t1)
             r == add(self, ItemInstance_with_instance(item_instance.file_name,
                                                       new_instance))
         IN [res |-> ItemError_from(r.res), instances |-> r.instances]

----------------------------------------------------------------------------
(* tag.rs: TagInstance and Tag *)

TagInstance_new(value, now) ==
    [value |-> value, instance |-> create_initial_instance("Major", now)]

TagInstance_with_instance(value, instance) ==
    [value |-> value, instance |-> instance]

\* Item::current_file_path: the path is built of the latest entry's FileName
\* (its to_string does not fail), the folder and the extension.
Item_current_file_path(self) ==
    IF latest(self) = None THEN [res |-> "RetrieveEmptyItem", file_name |-> None]
    ELSE [res |-> "Ok", file_name |-> Some(latest(self)[1].file_name)]

\* impl From<InstanceError> for TagError.
TagError_from(res) == ItemError_from(res)

\* A variant of new that leaves the history empty.
Tag_new_empty(value, now) == InstanceList_new(<<>>)

Tag_new(value, now) == InstanceList_new(<<TagInstance_new(value, now)>>)

Tag_edit(self, value, note, t1) ==
    IF latest(self) = None THEN [res |-> "EditEmptyTag", instances |-> self]
    ELSE LET tag_instance == latest(self)[1]
             new_instance == create_child_instance(get_instance(tag_instance),
                                                   note, "Major", t1)
             r == add(self, TagInstance_with_instance(value, new_instance))
         IN [res |-> TagError_from(r.res), instances |-> r.instances]

\* A variant of delete that gives the deleted entry an empty value.
Tag_delete_clearing(self, note, t1) ==
    IF latest(self) = None THEN [res |-> "EditEmptyTag", instances |-> self]
    ELSE LET new_instance == create_deletion_instance(
                                 get_instance(latest(self)[1]), note, t1)
             r == add(self, TagInstance_with_instance("", new_instance))
         IN [res |-> TagError_from(r.res), instances |-> r.instances]

Tag_delete(self, note, t1) ==
    IF latest(self) = None THEN [res |-> "EditEmptyTag", instances |-> self]
    ELSE LET tag_instance == latest(self)[1]
             new_instance == create_deletion_instance(get_instance(tag_instance),
                                                      note, t1)
             r == add(self, TagInstance_with_instance(tag_instance.value,
                                                      new_instance))
         IN [res |-> TagError_from(r.res), instances |-> r.instances]

Tag_restore(self, note, t1) ==
    IF latest(self) = None THEN [res |-> "EditEmptyTag", instances |-> self]
    ELSE LET tag_instance == latest(self)[1]
             new_instance == create_restored_instance(get_instance(tag_instance),
                                                      note, t1)
             r == add(self, TagInstance_with_instance(tag_instance.value,
                                                      new_instance))
         IN [res |-> TagError_from(r.res), instances |-> r.instances]

Tag_get_value(self) ==
    IF latest(self) = None THEN [res |-> "RetrieveEmptyTag", value |-> None]
    ELSE [res |-> "Ok", value |-> Some(latest(self)[1].value)]

----------------------------------------------------------------------------
(* Text.  A string is the sequence of its characters.  Results of the text *)
(* operations are records with ok (the Result is Ok) and, when ok, value.  *)

DigitChars == <<"0", "1", "2", "3", "4", "5", "6", "7", "8", "9">>

is_digit(c) == \E d \in 1..10 : DigitChars[d] = c

digit_value(c) == (CHOOSE d \in 1..10 : DigitChars[d] = c) - 1

RECURSIVE to_decimal(_)
\* Display of an unsigned integer ({} in format!).
to_decimal(n) ==
    IF n < 10 THEN <<DigitChars[n + 1]>>
    ELSE to_decimal(n \div 10) \o <<DigitChars[(n % 10) + 1]>>

RECURSIVE digits_value(_)
digits_value(s) ==
    IF s = <<>> THEN 0
    ELSE 10 * digits_value(SubSeq(s, 1, Len(s) - 1)) + digit_value(s[Len(s)])

\* str::parse::<u16>(): an optional `+`, then at least one digit and only
\* digits, of a value that fits u16.
parse_u16(s) ==
    LET body == IF s # <<>> /\ s[1] = "+" THEN Tail(s) ELSE s
    IN IF body = <<>> \/ \E i \in 1..Len(body) : ~is_digit(body[i])
       THEN [ok |-> FALSE, value |-> 0]
       ELSE IF digits_value(body) > U16_MAX
       THEN [ok |-> FALSE, value |-> 0]
       ELSE [ok |-> TRUE, value |-> digits_value(body)]

RECURSIVE split(_, _)
\* str::split(char): the parts between the separators, empty ones kept.
split(s, c) ==
    IF \A i \in 1..Len(s) : s[i] # c THEN <<s>>
    ELSE LET k == CHOOSE i \in 1..Len(s) :
                      s[i] = c /\ \A j \in 1..(i - 1) : s[j] # c
         IN <<SubSeq(s, 1, k - 1)>> \o split(SubSeq(s, k + 1, Len(s)), c)

RECURSIVE replace(_, _, _)
\* str::replace(from, to): every non-overlapping match, left to right.
replace(s, from, to) ==
    IF Len(s) < Len(from) THEN s
    ELSE IF SubSeq(s, 1, Len(from)) = from
    THEN to \o replace(SubSeq(s, Len(from) + 1, Len(s)), from, to)
    ELSE <<s[1]>> \o replace(Tail(s), from, to)

----------------------------------------------------------------------------
(* version.rs: the text forms of a Version *)

Version_to_string(self) ==
    to_decimal(self.major) \o <<".">> \o to_decimal(self.minor)
        \o <<".">> \o to_decimal(self.patch)

file_safe_string(self) ==
    to_decimal(self.major) \o <<"-">> \o to_decimal(self.minor)
        \o <<"-">> \o to_decimal(self.patch)

\* Version::from_string: Err(InvalidVersionString) is ok = FALSE.
\* A variant that reads the fields as major, patch, minor.
Version_from_string_swapped(text) ==
    LET parts == split(text, ".")
    IN IF Len(parts) # 3 THEN [ok |-> FALSE, value |-> Version_new(0, 0, 0)]
       ELSE [ok |-> parse_u16(parts[1]).ok /\ parse_u16(parts[2]).ok
                        /\ parse_u16(parts[3]).ok,
             value |-> Version_new(parse_u16(parts[1]).value,
                                   parse_u16(parts[3]).value,
                                   parse_u16(parts[2]).value)]

Version_from_string(text) ==
    LET dotted == split(text, ".")
        parts == IF Len(dotted) # 3 THEN split(text, "-") ELSE dotted
    IN IF Len(parts) # 3
       THEN [ok |-> FALSE, value |-> Version_new(0, 0, 0)]
       ELSE LET major == parse_u16(parts[1])
                minor == parse_u16(parts[2])
                patch == parse_u16(parts[3])
            IN IF major.ok /\ minor.ok /\ patch.ok
               THEN [ok |-> TRUE,
                     value |-> Version_new(major.value, minor.value, patch.value)]
               ELSE [ok |-> FALSE, value |-> Version_new(0, 0, 0)]

----------------------------------------------------------------------------
(* file_name.rs: the FileName token.  Here a Zoned is the record of its    *)
(* civil fields and its offset from UTC: year, month, day, hour, minute,   *)
(* second, nanosecond, offset_sign, offset_hour, offset_minute; and a      *)
(* FileName is [datetime, version].                                        *)

RECURSIVE pad(_, _)
\* The digits s zero-padded on the left to the width w.
pad(s, w) == IF Len(s) >= w THEN s ELSE pad(<<"0">> \o s, w)

RECURSIVE trim_zeros(_)
\* Trailing zeros removed, one digit at least kept.
trim_zeros(s) ==
    IF Len(s) > 1 /\ s[Len(s)] = "0" THEN trim_zeros(SubSeq(s, 1, Len(s) - 1))
    ELSE s

RECURSIVE pad_right(_, _)
pad_right(s, w) == IF Len(s) >= w THEN s ELSE pad_right(s \o <<"0">>, w)

FILE_NAME_PLUS_REPLACEMENT == <<"-", "P", "L", "U", "S", "-">>

\* jiff's strftime with FILE_NAME_DATETIME_FORMAT, %Y-%m-%d-%H-%M-%S-%f%z.
\* %f writes the nanoseconds as a fraction: all nine digits, or (trimmed)
\* without its trailing zeros, depending on the version of the library.
strftime(datetime, trimmed) ==
    LET fraction == pad(to_decimal(datetime.nanosecond), 9)
    IN pad(to_decimal(datetime.year), 4) \o <<"-">>
       \o pad(to_decimal(datetime.month), 2) \o <<"-">>
       \o pad(to_decimal(datetime.day), 2) \o <<"-">>
       \o pad(to_decimal(datetime.hour), 2) \o <<"-">>
       \o pad(to_decimal(datetime.minute), 2) \o <<"-">>
       \o pad(to_decimal(datetime.second), 2) \o <<"-">>
       \o (IF trimmed THEN trim_zeros(fraction) ELSE fraction)
       \o <<datetime.offset_sign>>
       \o pad(to_decimal(datetime.offset_hour), 2)
       \o pad(to_decimal(datetime.offset_minute), 2)

\* How many of the characters of s from position i on are digits, up to max.
RECURSIVE count_digits(_, _, _)
count_digits(s, i, max) ==
    IF max = 0 \/ i > Len(s) \/ ~is_digit(s[i]) THEN 0
    ELSE 1 + count_digits(s, i + 1, max - 1)

\* One numeric directive: between 1 and max digits at the position of the
\* parse state st, whose value goes behind st.values.
parse_digits(st, max) ==
    LET n == count_digits(st.rest, 1, max)
    IN IF ~st.ok \/ n = 0 THEN [st EXCEPT !.ok = FALSE]
       ELSE [ok |-> TRUE,
             rest |-> SubSeq(st.rest, n + 1, Len(st.rest)),
             values |-> Append(st.values, SubSeq(st.rest, 1, n))]

\* One literal character of the format.
parse_literal(st, c) ==
    IF ~st.ok \/ st.rest = <<>> \/ st.rest[1] # c THEN [st EXCEPT !.ok = FALSE]
    ELSE [st EXCEPT !.rest = Tail(st.rest)]

\* The sign of %z.
parse_sign(st) ==
    IF ~st.ok \/ st.rest = <<>> \/ st.rest[1] \notin {"+", "-"}
    THEN [st EXCEPT !.ok = FALSE]
    ELSE [ok |-> TRUE, rest |-> Tail(st.rest),
          values |-> Append(st.values, <<st.rest[1]>>)]

\* Exactly n digits (the hours and the minutes of %z).
parse_exactly(st, n) ==
    IF ~st.ok \/ count_digits(st.rest, 1, n) # n THEN [st EXCEPT !.ok = FALSE]
    ELSE [ok |-> TRUE,
          rest |-> SubSeq(st.rest, n + 1, Len(st.rest)),
          values |-> Append(st.values, SubSeq(st.rest, 1, n))]

\* jiff's Zoned::strptime with FILE_NAME_DATETIME_FORMAT: the directives in
\* turn, the whole input consumed, the fields in range.
strptime(text) ==
    LET s0 == [ok |-> TRUE, rest |-> text, values |-> <<>>]
        s1 == parse_literal(parse_digits(s0, 4), "-")
        s2 == parse_literal(parse_digits(s1, 2), "-")
        s3 == parse_literal(parse_digits(s2, 2), "-")
        s4 == parse_literal(parse_digits(s3, 2), "-")
        s5 == parse_literal(parse_digits(s4, 2), "-")
        s6 == parse_literal(parse_digits(s5, 2), "-")
        s7 == parse_digits(s6, 9)
        s8 == parse_exactly(parse_exactly(parse_sign(s7), 2), 2)
        v == s8.values
        datetime == [year |-> digits_value(v[1]),
                     month |-> digits_value(v[2]),
                     day |-> digits_value(v[3]),
                     hour |-> digits_value(v[4]),
                     minute |-> digits_value(v[5]),
                     second |-> digits_value(v[6]),
                     nanosecond |-> digits_value(pad_right(v[7], 9)),
                     offset_sign |-> v[8][1],
                     offset_hour |-> digits_value(v[9]),
                     offset_minute |-> digits_value(v[10])]
    IN IF ~s8.ok \/ s8.rest # <<>> THEN [ok |-> FALSE]
       ELSE IF \/ datetime.month \notin 1..12
               \/ datetime.day \notin 1..31
               \/ datetime.hour > 23
               \/ datetime.minute > 59
               \/ datetime.second > 59
               \/ datetime.offset_hour > 25
               \/ datetime.offset_minute > 59
       THEN [ok |-> FALSE]
       ELSE [ok |-> TRUE, value |-> datetime]

FileName_at(datetime, version) == [datetime |-> datetime, version |-> version]

\* FileName::to_string; formatting a Zoned with this format does not fail.
FileName_to_string(self, trimmed) ==
    replace(strftime(self.datetime, trimmed), <<"+">>, FILE_NAME_PLUS_REPLACEMENT)
        \o <<"_">> \o file_safe_string(self.version)

\* A variant that does not put the + back before parsing the timestamp.
FileName_from_string_no_plus(file_name) ==
    LET parts == split(file_name, "_")
        datetime == strptime(parts[1])
        version == Version_from_string(parts[2])
    IN IF Len(parts) # 2 THEN [status |-> "FilenameError"]
       ELSE IF ~datetime.ok THEN [status |-> "FileUrlDateTime"]
       ELSE IF ~version.ok THEN [status |-> "panic"]
       ELSE [status |-> "Ok", value |-> FileName_at(datetime.value, version.value)]

\* FileName::from_string: status is "Ok", the error returned, or "panic",
\* the unwrap of an Err of Version::from_string.
FileName_from_string(file_name) ==
    LET parts == split(file_name, "_")
    IN IF Len(parts) # 2 THEN [status |-> "FilenameError"]
       ELSE LET datetime == strptime(replace(parts[1], FILE_NAME_PLUS_REPLACEMENT,
                                              <<"+">>))
                version == Version_from_string(parts[2])
            IN IF ~datetime.ok THEN [status |-> "FileUrlDateTime"]
               ELSE IF ~version.ok THEN [status |-> "panic"]
               ELSE [status |-> "Ok",
                     value |-> FileName_at(datetime.value, version.value)]

----------------------------------------------------------------------------
(* The state: one object under test and the last call made on it. *)

VARIABLES
    owner,      \* what was constructed: "InstanceList", "Item" or "Tag"
    instances,  \* the InstanceList (the owner's field instances)
    clock,      \* the value of the last Zoned::now()
    clock_monotonic, \* whether the system clock never steps back in this run
    call,       \* the last call: its name and arguments
    result,     \* what the last call returned
    before,     \* the list as it was when the last call was made
    overflow_checks, \* whether the build panics on integer overflow
    version,    \* a Version under test (Version specification)
    child,      \* what the last call on version gave
    fname,      \* a FileName under test (text specification)
    fraction_trimmed, \* whether %f leaves out trailing zeros
    token,      \* the token handed to FileName::from_string
    decoded,    \* what FileName::from_string gave for token
    text,       \* the text handed to Version::from_string
    reparsed,   \* what Version::from_string gave for text
    retext,     \* Version::to_string of the parsed version
    serialized, \* whether a caller holds the list for the whole of an add
    callers     \* the callers of add on one list: where each is in its call

vars == <<owner, instances, clock, clock_monotonic, call, result, before,
          overflow_checks, version, child,
          fname, fraction_trimmed, token, decoded, text, reparsed, retext,
          serialized, callers>>

list_vars == <<owner, instances, clock, clock_monotonic, call, result, before,
               serialized, callers>>
version_vars == <<overflow_checks, version, child>>
text_vars == <<fname, fraction_trimmed, token, decoded, text, reparsed, retext>>
race_vars == <<serialized, callers>>

\* Inputs.
TestInstance(t, k) ==
    [instance |-> [datetime |-> t, change_note |-> "Test Change",
                   instance_type |-> k, version |-> Version_new(0, 1, 0)]]

TestPayloads == {TestInstance(t, k) : t \in Times, k \in InstanceType}

RECURSIVE SeqsUpTo(_, _)
SeqsUpTo(S, n) ==
    IF n = 0 THEN {<<>>}
    ELSE LET shorter == SeqsUpTo(S, n - 1)
         IN shorter \cup {Append(s, x) : s \in {q \in shorter : Len(q) = n - 1}, x \in S}

Notes == {"Test Change"}
NoteOptions == {None, Some("Delete Tag")}
Values == {"Test Tag", "Test Tag 2"}

VersionIdle ==
    [status |-> "none", op |-> "none", change |-> "none",
     self |-> Version_new(0, 0, 0), value |-> Version_new(0, 0, 0)]

\* The Zoned of the test token of file_name.rs.
TestDatetime ==
    [year |-> 2024, month |-> 7, day |-> 30, hour |-> 0, minute |-> 56,
     second |-> 25, nanosecond |-> 31870928,
     offset_sign |-> "-", offset_hour |-> 6, offset_minute |-> 0]

Callers == {1, 2}

CallerIdle == [pc |-> "idle", payload |-> None, seen |-> None, res |-> "none"]

\* Nothing of the text layer is under test, and the list has one caller at
\* a time.
TextIdle ==
    /\ serialized = TRUE
    /\ callers = [c \in Callers |-> CallerIdle]
    /\ fname = FileName_at(TestDatetime, Version_new(0, 0, 0))
    /\ fraction_trimmed = FALSE
    /\ token = [given |-> "none", chars |-> <<>>]
    /\ decoded = [status |-> "none"]
    /\ text = [form |-> "none", chars |-> <<>>]
    /\ reparsed = [status |-> "none"]
    /\ retext = <<>>

VersionComponents == (0..MaxComp) \cup ((U16_MAX - 1)..U16_MAX)

VersionInputs ==
    {Version_new(a, b, c) : a \in VersionComponents, b \in VersionComponents,
                            c \in VersionComponents}

----------------------------------------------------------------------------
(* Construction *)

InitList ==
    \E values \in SeqsUpTo(TestPayloads, MaxInit) :
        /\ owner = "InstanceList"
        /\ instances = InstanceList_new(values)
        /\ call = [op |-> "new", values |-> values]
        /\ clock = 0

InitItem ==
    \E t1 \in Times :
        /\ owner = "Item"
        /\ instances = Item_new(t1)
        /\ call = [op |-> "new"]
        /\ clock = t1

InitTag ==
    \E value \in Values, t1 \in Times :
        /\ owner = "Tag"
        /\ instances = Tag_new(value, t1)
        /\ call = [op |-> "new", value |-> value]
        /\ clock = t1

Init ==
    /\ InitList \/ InitItem \/ InitTag
    /\ clock_monotonic = FALSE
    /\ result = "Ok"
    /\ before = <<>>
    /\ overflow_checks = FALSE
    /\ version = Version_new(0, 0, 0)
    /\ child = VersionIdle
    /\ TextIdle

----------------------------------------------------------------------------
(* Calls.  Every call records itself, the list it found and its Result. *)

Returned(c, r, t) ==
    /\ call' = c
    /\ before' = instances
    /\ result' = r.res
    /\ instances' = r.instances
    /\ clock' = t
    /\ UNCHANGED <<owner, clock_monotonic, version_vars, text_vars, race_vars>>

\* Whether the call about to be made overflows a component of the latest
\* version in a build with overflow checks: `+= 1` panics, before add.
Panics(change) ==
    /\ overflow_checks
    /\ latest(instances) # None
    /\ increment_overflows(get_instance(latest(instances)[1]).version, change)

\* The call panicked: nothing was pushed, and nothing runs after it.
Panicked(c, t) ==
    /\ call' = c
    /\ before' = instances
    /\ result' = "panic"
    /\ clock' = t
    /\ UNCHANGED <<owner, instances, clock_monotonic, version_vars, text_vars,
                   race_vars>>

\* A call on the entity, its Zoned::now() giving t: it panics or returns r.
Called(c, change, r, t) ==
    /\ result # "panic"
    /\ clock_monotonic => t >= clock
    /\ len(instances) < MaxLen
    /\ IF Panics(change) THEN Panicked(c, t) ELSE Returned(c, r, t)

Add(new_instance) ==
    /\ owner = "InstanceList"
    /\ len(instances) < MaxLen
    /\ Returned([op |-> "add", payload |-> new_instance],
                add(instances, new_instance), clock)

ItemEdit ==
    /\ owner = "Item"
    /\ \E note \in Notes, version_level \in VersionLevel, t1 \in Times :
          Called([op |-> "edit", note |-> note, version_level |-> version_level], version_level,
                 Item_edit(instances, note, version_level, t1), t1)

ItemDelete ==
    /\ owner = "Item"
    /\ \E note \in NoteOptions, t1 \in Times :
          Called([op |-> "delete", note |-> note], "Major",
                 Item_delete(instances, note, t1), t1)

ItemRestore ==
    /\ owner = "Item"
    /\ \E note \in NoteOptions, t1 \in Times :
          Called([op |-> "restore", note |-> note], "Major",
                 Item_restore(instances, note, t1), t1)

TagEdit ==
    /\ owner = "Tag"
    /\ \E value \in Values, note \in Notes, t1 \in Times :
          Called([op |-> "edit", value |-> value, note |-> note], "Major",
                 Tag_edit(instances, value, note, t1), t1)

TagDelete ==
    /\ owner = "Tag"
    /\ \E note \in NoteOptions, t1 \in Times :
          Called([op |-> "delete", note |-> note], "Major",
                 Tag_delete(instances, note, t1), t1)

TagRestore ==
    /\ owner = "Tag"
    /\ \E note \in NoteOptions, t1 \in Times :
          Called([op |-> "restore", note |-> note], "Major",
                 Tag_restore(instances, note, t1), t1)

Next ==
    \/ \E new_instance \in TestPayloads : Add(new_instance)
    \/ ItemEdit
    \/ ItemDelete
    \/ ItemRestore
    \/ TagEdit
    \/ TagDelete
    \/ TagRestore

Spec == Init /\ [][Next]_vars

----------------------------------------------------------------------------
(* The long-lived entity.  A component of the version reaches U16_MAX      *)
(* only after tens of thousands of successful calls.  edit, delete,        *)
(* restore and add read latest() and push, and nothing else of the list,   *)
(* so the entries before the latest one do not bear on what they do: here  *)
(* instances holds the history from its latest entry on, the older entries *)
(* being left out.  The latest entry is an Update at a version that the    *)
(* calls before it reach: (n, 0, 0) after n - 1 edits of a Tag or n Major  *)
(* edits of an Item, (0, n, 0) after n - 1 Minor edits of an Item,         *)
(* (0, 1, n) after n Patch edits of an Item.                               *)

AgedComponents == {U16_MAX - 1, U16_MAX}

AgedInstance(v, t) ==
    [datetime |-> t, change_note |-> "Test Change",
     instance_type |-> "Update", version |-> v]

InitAgedItem ==
    \E n \in AgedComponents, t1 \in Times :
      \E v \in {Version_new(n, 0, 0), Version_new(0, n, 0), Version_new(0, 1, n)} :
        /\ owner = "Item"
        /\ instances = <<ItemInstance_with_instance(FileName_new(v),
                                                    AgedInstance(v, t1))>>
        /\ clock = t1

InitAgedTag ==
    \E n \in AgedComponents, value \in Values, t1 \in Times :
        /\ owner = "Tag"
        /\ instances = <<TagInstance_with_instance(value,
                             AgedInstance(Version_new(n, 0, 0), t1))>>
        /\ clock = t1

InitAged ==
    /\ InitAgedItem \/ InitAgedTag
    /\ call = [op |-> "aged"]
    /\ clock_monotonic = FALSE
    /\ result = "Ok"
    /\ before = <<>>
    /\ overflow_checks \in BOOLEAN
    /\ version = Version_new(0, 0, 0)
    /\ child = VersionIdle
    /\ TextIdle

NextAged ==
    \/ ItemEdit
    \/ ItemDelete
    \/ ItemRestore
    \/ TagEdit
    \/ TagDelete
    \/ TagRestore

SpecAged == InitAged /\ [][NextAged]_vars

----------------------------------------------------------------------------
(* Two callers of add on one list.  add takes &mut self, so callers that   *)
(* go through the borrow rules have the list to themselves for a whole     *)
(* call (serialized).  The other runs are those in which the list is       *)
(* reached without that exclusion: add is then its two parts, the checks   *)
(* against latest() and the push, and the callers' parts may alternate.    *)

InitRace ==
    /\ \E values \in SeqsUpTo(TestPayloads, 1) :
          /\ instances = InstanceList_new(values)
          /\ call = [op |-> "new", values |-> values]
    /\ owner = "InstanceList"
    /\ clock = 0
    /\ clock_monotonic = FALSE
    /\ result = "Ok"
    /\ before = <<>>
    /\ overflow_checks = FALSE
    /\ version = Version_new(0, 0, 0)
    /\ child = VersionIdle
    /\ fname = FileName_at(TestDatetime, Version_new(0, 0, 0))
    /\ fraction_trimmed = FALSE
    /\ token = [given |-> "none", chars |-> <<>>]
    /\ decoded = [status |-> "none"]
    /\ text = [form |-> "none", chars |-> <<>>]
    /\ reparsed = [status |-> "none"]
    /\ retext = <<>>
    /\ serialized \in BOOLEAN
    /\ callers = [c \in Callers |-> CallerIdle]

\* The whole of add by caller c, nothing of another caller in between.
AddAtomic(c, new_instance) ==
    /\ serialized
    /\ callers[c].pc = "idle"
    /\ LET r == add(instances, new_instance)
       IN /\ instances' = r.instances
          /\ callers' = [callers EXCEPT ![c] =
                 [pc |-> "done", payload |-> Some(new_instance),
                  seen |-> latest(instances), res |-> r.res]]
    /\ UNCHANGED <<owner, clock, clock_monotonic, call, result, before,
                   serialized, version_vars, text_vars>>

\* The checks of add by caller c: it returns the error, or goes on to push.
Validate(c, new_instance) ==
    /\ ~serialized
    /\ callers[c].pc = "idle"
    /\ LET res == add(instances, new_instance).res
       IN callers' = [callers EXCEPT ![c] =
              [pc |-> IF res = "Ok" THEN "validated" ELSE "done",
               payload |-> Some(new_instance),
               seen |-> latest(instances), res |-> res]]
    /\ UNCHANGED <<owner, instances, clock, clock_monotonic, call, result,
                   before, serialized, version_vars, text_vars>>

\* self.instances.push(new_instance) by caller c, and Ok(()).
Push(c) ==
    /\ ~serialized
    /\ callers[c].pc = "validated"
    /\ instances' = Append(instances, callers[c].payload[1])
    /\ callers' = [callers EXCEPT ![c].pc = "done"]
    /\ UNCHANGED <<owner, clock, clock_monotonic, call, result, before,
                   serialized, version_vars, text_vars>>

NextRace ==
    \/ \E c \in Callers, new_instance \in TestPayloads : AddAtomic(c, new_instance)
    \/ \E c \in Callers, new_instance \in TestPayloads : Validate(c, new_instance)
    \/ \E c \in Callers : Push(c)

SpecRace == InitRace /\ [][NextRace]_vars

----------------------------------------------------------------------------
(* The clock.  Instance reads Zoned::now(), the wall clock of the system,  *)
(* which may be set back while the program runs.  Here a run is either one *)
(* in which it never is (every read is at least the read before) or one    *)
(* in which any read gives any time.                                       *)

InitClock ==
    /\ InitItem \/ InitTag
    /\ clock_monotonic \in BOOLEAN
    /\ result = "Ok"
    /\ before = <<>>
    /\ overflow_checks = FALSE
    /\ version = Version_new(0, 0, 0)
    /\ child = VersionIdle
    /\ TextIdle

SpecClock == InitClock /\ [][NextAged]_vars

----------------------------------------------------------------------------
(* The Version specification: one call of create_child_version or of      *)
(* increment on a Version drawn from VersionInputs.  child records the     *)
(* call, the receiver as it was, and what the call gave; a build with      *)
(* overflow checks panics where `+= 1` overflows.                          *)

InitVersion ==
    /\ owner = "Version"
    /\ instances = <<>>
    /\ clock = 0
    /\ call = [op |-> "new"]
    /\ clock_monotonic = FALSE
    /\ result = "Ok"
    /\ before = <<>>
    /\ overflow_checks \in BOOLEAN
    /\ version \in VersionInputs
    /\ child = VersionIdle
    /\ TextIdle

VersionCalled(op, change) ==
    IF overflow_checks /\ increment_overflows(version, change)
    THEN [status |-> "panic", op |-> op, change |-> change,
          self |-> version, value |-> version]
    ELSE [status |-> "Ok", op |-> op, change |-> change,
          self |-> version, value |-> create_child_version(version, change)]

\* create_child_version(&self, change): the receiver is not changed.
CreateChildVersion(change) ==
    /\ child.status = "none"
    /\ child' = VersionCalled("create_child_version", change)
    /\ UNCHANGED <<version, overflow_checks, list_vars, text_vars>>

\* increment(&mut self, change): the receiver is changed in place.
Increment(change) ==
    /\ child.status = "none"
    /\ child' = VersionCalled("increment", change)
    /\ version' = child'.value
    /\ UNCHANGED <<overflow_checks, list_vars, text_vars>>

NextVersion ==
    \/ \E change \in VersionLevel : CreateChildVersion(change)
    \/ \E change \in VersionLevel : Increment(change)

SpecVersion == InitVersion /\ [][NextVersion]_vars

----------------------------------------------------------------------------
(* Text: a FileName and its Version through to_string and from_string.     *)
(* The FileName is one that FileName::new can give: the wall clock of some *)
(* time zone with a whole-minute offset, and the version of an entry.      *)

DatetimeInputs ==
    {[TestDatetime EXCEPT !.month = month, !.hour = hour,
                          !.nanosecond = nanosecond,
                          !.offset_sign = offset[1],
                          !.offset_hour = offset[2],
                          !.offset_minute = offset[3]] :
        month \in {7, 12}, hour \in {0, 23},
        nanosecond \in {0, 31870928, 500000000},
        offset \in {<<"-", 6, 0>>, <<"+", 0, 0>>, <<"+", 5, 30>>}}

TextVersions ==
    {Version_new(1, 2, 3), Version_new(0, 0, 0), Version_new(U16_MAX, 10, 0)}

\* Texts of one component: canonical ones, and ones u16::from_str also
\* takes (a leading zero, a plus sign).
ComponentTexts ==
    {<<"0">>, <<"7">>, <<"1", "2">>, <<"6", "5", "5", "3", "5">>,
     <<"0", "7">>, <<"+", "7">>}

GivenTexts ==
    {a \o <<".">> \o b \o <<".">> \o c :
        a \in ComponentTexts, b \in ComponentTexts, c \in {<<"0">>, <<"0", "7">>}}

InitText ==
    /\ owner = "FileName"
    /\ instances = <<>>
    /\ clock = 0
    /\ call = [op |-> "new"]
    /\ clock_monotonic = FALSE
    /\ result = "Ok"
    /\ before = <<>>
    /\ overflow_checks = FALSE
    /\ version = Version_new(0, 0, 0)
    /\ child = VersionIdle
    /\ fname \in {FileName_at(datetime, v) :
                      datetime \in DatetimeInputs, v \in TextVersions}
    /\ fraction_trimmed \in BOOLEAN
    /\ token = [given |-> "none", chars |-> <<>>]
    /\ decoded = [status |-> "none"]
    /\ text = [form |-> "none", chars |-> <<>>]
    /\ reparsed = [status |-> "none"]
    /\ retext = <<>>
    /\ serialized = TRUE
    /\ callers = [c \in Callers |-> CallerIdle]

TextUntouched == token.given = "none" /\ text.form = "none"

\* FileName::to_string(&self).
FileNameToString ==
    /\ TextUntouched
    /\ token' = [given |-> "to_string",
                 chars |-> FileName_to_string(fname, fraction_trimmed)]
    /\ UNCHANGED <<list_vars, version_vars, fname, fraction_trimmed, decoded,
                   text, reparsed, retext>>

\* The ways a caller's token differs from an encoding.
Alterations ==
    {"no_underscore", "empty_timestamp", "empty_version", "second_underscore",
     "bad_timestamp", "missing_field", "extra_field", "non_integer",
     "too_large", "dotted_version"}

Altered(chars, how) ==
    LET parts == split(chars, "_")
        timestamp == parts[1]
        v == parts[2]
    IN CASE how = "no_underscore" -> timestamp \o v
         [] how = "empty_timestamp" -> <<"_">> \o v
         [] how = "empty_version" -> timestamp \o <<"_">>
         [] how = "second_underscore" -> chars \o <<"_", "x">>
         [] how = "bad_timestamp" -> <<"x">> \o Tail(chars)
         [] how = "missing_field" -> timestamp \o <<"_", "1", "-", "2">>
         [] how = "extra_field" -> chars \o <<"-", "4">>
         [] how = "non_integer" -> timestamp \o <<"_", "1", "-", "x", "-", "3">>
         [] how = "too_large" ->
                timestamp \o <<"_", "6", "5", "5", "3", "6", "-", "0", "-", "0">>
         [] how = "dotted_version" -> timestamp \o <<"_">> \o replace(v, <<"-">>, <<".">>)

\* A caller's token that is not an encoding.
GiveToken(how) ==
    /\ token.given = "to_string"
    /\ decoded.status = "none"
    /\ token' = [given |-> how, chars |-> Altered(token.chars, how)]
    /\ UNCHANGED <<list_vars, version_vars, fname, fraction_trimmed, decoded,
                   text, reparsed, retext>>

\* FileName::from_string(token).
FileNameFromString ==
    /\ token.given # "none"
    /\ decoded.status = "none"
    /\ decoded' = FileName_from_string(token.chars)
    /\ UNCHANGED <<list_vars, version_vars, fname, fraction_trimmed, token,
                   text, reparsed, retext>>

\* Version::to_string(&self) of the FileName's version.
VersionToString ==
    /\ TextUntouched
    /\ text' = [form |-> "to_string", chars |-> Version_to_string(fname.version)]
    /\ UNCHANGED <<list_vars, version_vars, fname, fraction_trimmed, token,
                   decoded, reparsed, retext>>

\* Version::file_safe_string(&self) of the FileName's version.
VersionFileSafeString ==
    /\ TextUntouched
    /\ text' = [form |-> "file_safe_string", chars |-> file_safe_string(fname.version)]
    /\ UNCHANGED <<list_vars, version_vars, fname, fraction_trimmed, token,
                   decoded, reparsed, retext>>

\* A caller's dotted text of three integers.
GiveText(s) ==
    /\ TextUntouched
    /\ text' = [form |-> "given", chars |-> s]
    /\ UNCHANGED <<list_vars, version_vars, fname, fraction_trimmed, token,
                   decoded, reparsed, retext>>

\* Version::from_string(text).
VersionFromString ==
    /\ text.form # "none"
    /\ reparsed.status = "none"
    /\ reparsed' = LET r == Version_from_string(text.chars)
                   IN IF r.ok THEN [status |-> "Ok", value |-> r.value]
                      ELSE [status |-> "InvalidFormat"]
    /\ UNCHANGED <<list_vars, version_vars, fname, fraction_trimmed, token,
                   decoded, text, retext>>

\* Version::to_string(&self) of the parsed Version.
VersionToStringAgain ==
    /\ reparsed.status = "Ok"
    /\ retext = <<>>
    /\ retext' = Version_to_string(reparsed.value)
    /\ UNCHANGED <<list_vars, version_vars, fname, fraction_trimmed, token,
                   decoded, text, reparsed>>

NextText ==
    \/ FileNameToString
    \/ \E how \in Alterations : GiveToken(how)
    \/ FileNameFromString
    \/ VersionToString
    \/ VersionFileSafeString
    \/ \E s \in GivenTexts : GiveText(s)
    \/ VersionFromString
    \/ VersionToStringAgain

SpecText == InitText /\ [][NextText]_vars

----------------------------------------------------------------------------
(* Properties.  Helpers over the state: *)

datetime_at(l, i) == get_instance(l[i]).datetime
kind_at(l, i) == get_instance(l[i]).instance_type
version_at(l, i) == get_instance(l[i]).version

IsPrefix(s, t) == Len(s) <= Len(t) /\ SubSeq(t, 1, Len(s)) = s

IsEntity == owner \in {"Item", "Tag"}

AddCalled == owner = "InstanceList" /\ call.op = "add"

\* The payload of the last add is earlier than the entry that was latest.
AddedEarlier ==
    /\ AddCalled
    /\ before # <<>>
    /\ get_instance(call.payload).datetime < datetime_at(before, Len(before))

\* C1: after InstanceList::new on any vector and any sequence of add calls,
\* accepted or rejected, the entries are in non-decreasing order of datetime.
C1_OrderedByDatetime ==
    \A i \in 1..Len(instances) : \A j \in i..Len(instances) :
        datetime_at(instances, i) <= datetime_at(instances, j)

\* An accepted add on a list of entries of different datetimes.
C1_Witness ==
    /\ AddCalled
    /\ result = "Ok"
    /\ Len(instances) >= 3
    /\ datetime_at(instances, 1) < datetime_at(instances, Len(instances))

\* C2: add of a payload strictly earlier than the latest entry of a
\* non-empty list returns DatetimeIncorrectlyOrdered and leaves the length
\* of the list unchanged.
C2_EarlierRejected ==
    AddedEarlier =>
        /\ result = "DatetimeIncorrectlyOrdered"
        /\ len(instances) = len(before)

C2_Witness == AddedEarlier /\ result = "DatetimeIncorrectlyOrdered"

\* The last add found a Deletion latest and brought another kind.
AddedToDeleted ==
    /\ AddCalled
    /\ is_deleted(before)
    /\ get_instance(call.payload).instance_type # "Restoration"

\* C3: deletion lock: when the latest entry is a Deletion, add of a payload
\* that is no Restoration is not accepted, and when its datetime is not
\* earlier than the latest it fails with CannotAddToDeletedInstanceList.
C3_DeletionLock ==
    AddedToDeleted =>
        /\ result # "Ok"
        /\ instances = before
        /\ ~AddedEarlier => result = "CannotAddToDeletedInstanceList"

C3_Witness ==
    /\ AddedToDeleted
    /\ ~AddedEarlier
    /\ result = "CannotAddToDeletedInstanceList"

\* C4: restoration unlock: on a list whose latest entry is a Deletion, add
\* of a Restoration that is not earlier than the latest succeeds and the
\* list is no longer deleted; and Item::restore / Tag::restore after a
\* successful delete succeeds and leaves the history not deleted.
C4_RestorationUnlock ==
    /\ (/\ AddCalled
        /\ is_deleted(before)
        /\ get_instance(call.payload).instance_type = "Restoration"
        /\ ~AddedEarlier)
       => (result = "Ok" /\ ~is_deleted(instances))
    /\ (IsEntity /\ call.op = "restore" /\ is_deleted(before))
       => (result = "Ok" /\ ~is_deleted(instances))

\* C5: no partial mutation on rejection: when add, or edit, delete or
\* restore of an Item or Tag, returns an error, the whole sequence of
\* entries is what it was before the call.
C5_RejectionLeavesList == result # "Ok" => instances = before

\* A rejected delete of an entity with a history of several entries.
C5_Witness ==
    /\ IsEntity
    /\ call.op = "delete"
    /\ result = "Instance(CannotAddToDeletedInstanceList)"
    /\ Len(before) >= 2

\* C6: append-only history: the list a call leaves has the list it found
\* as a prefix, a successful call adds exactly one entry, add places its
\* payload last, and a successful delete adds an entry of kind Deletion.
C6_AppendOnly ==
    call.op # "new" =>
        /\ IsPrefix(before, instances)
        /\ result = "Ok" => len(instances) = len(before) + 1
        /\ (AddCalled /\ result = "Ok") =>
               instances[Len(instances)] = call.payload
        /\ (IsEntity /\ call.op = "delete" /\ result = "Ok") =>
               kind_at(instances, Len(instances)) = "Deletion"

\* A successful restore on a deleted Item: the Deletion entry stays.
C6_Witness ==
    /\ owner = "Item"
    /\ call.op = "restore"
    /\ result = "Ok"
    /\ is_deleted(before)
    /\ Len(instances) >= 3

\* The transitions of the lifecycle state machine.
AllowedAfter(k) ==
    CASE k = "Creation" -> {"Update", "Deletion"}
      [] k = "Update" -> {"Update", "Deletion"}
      [] k = "Deletion" -> {"Restoration"}
      [] k = "Restoration" -> {"Update", "Deletion"}

\* C7: in every history of an Item or Tag, consecutive entries have kinds
\* Creation -> {Update, Deletion}, Update -> {Update, Deletion},
\* Deletion -> {Restoration}, Restoration -> {Update, Deletion}.
C7_LifecycleKinds ==
    IsEntity =>
        \A i \in 1..(Len(instances) - 1) :
            kind_at(instances, i + 1) \in AllowedAfter(kind_at(instances, i))

\* C8: in every history of an Item or Tag the first entry is a Creation and
\* no other entry is.
C8_CreationOnlyFirst ==
    IsEntity =>
        /\ Len(instances) >= 1
        /\ kind_at(instances, 1) = "Creation"
        /\ \A i \in 2..Len(instances) : kind_at(instances, i) # "Creation"

\* A history that went through an edit, a delete and a restore.
C8_Witness ==
    /\ IsEntity
    /\ Len(instances) >= 4
    /\ \E i \in 1..Len(instances) : kind_at(instances, i) = "Update"
    /\ \E i \in 1..Len(instances) : kind_at(instances, i) = "Restoration"

\* The version one level above v, as the specification states it.
Raised(v, level) ==
    CASE level = "Major" -> [major |-> v.major + 1, minor |-> 0, patch |-> 0]
      [] level = "Minor" -> [major |-> v.major, minor |-> v.minor + 1, patch |-> 0]
      [] level = "Patch" -> [major |-> v.major, minor |-> v.minor,
                             patch |-> v.patch + 1]

\* C9: for every Version and level, create_child_version and increment
\* raise the chosen level by one, reset every lower level to zero and keep
\* every higher level.
C9_ChildVersion ==
    child.status # "none" =>
        /\ child.status = "Ok"
        /\ child.value = Raised(child.self, child.change)

KindsOf(l) == [i \in 1..Len(l) |-> kind_at(l, i)]

EditLevel == IF owner = "Item" THEN call.version_level ELSE "Major"

\* C10: each transition yields its kind and version: the initial Instance
\* is a Creation of version 0.0.0 raised at its level, a child an Update
\* raised at the level asked for, a deletion a Deletion and a restoration a
\* Restoration, both raised at Major; so that initial(Minor), child(Patch),
\* deletion, restoration give 0.1.0, 0.1.1, 1.0.0, 2.0.0, and an Item after
\* new, edit(Minor), delete, restore is at 2.0.0.
C10_TransitionKindAndVersion ==
    IsEntity =>
        /\ kind_at(instances, 1) = "Creation"
        /\ version_at(instances, 1) =
               IF owner = "Item" THEN Version_new(0, 1, 0) ELSE Version_new(1, 0, 0)
        /\ (result = "Ok" /\ call.op = "edit") =>
              /\ kind_at(instances, Len(instances)) = "Update"
              /\ version_at(instances, Len(instances)) =
                     Raised(version_at(before, Len(before)), EditLevel)
        /\ (result = "Ok" /\ call.op = "delete") =>
              /\ kind_at(instances, Len(instances)) = "Deletion"
              /\ version_at(instances, Len(instances)) =
                     Raised(version_at(before, Len(before)), "Major")
        /\ (result = "Ok" /\ call.op = "restore") =>
              /\ kind_at(instances, Len(instances)) = "Restoration"
              /\ version_at(instances, Len(instances)) =
                     Raised(version_at(before, Len(before)), "Major")
        /\ (/\ owner = "Item"
            /\ KindsOf(instances) = <<"Creation", "Update", "Deletion", "Restoration">>
            /\ version_at(instances, 2) \in {Version_new(0, 1, 1), Version_new(0, 2, 0)})
           => /\ version_at(instances, 3) = Version_new(1, 0, 0)
              /\ version_at(instances, 4) = Version_new(2, 0, 0)

\* An Item after new, edit(Patch), delete and restore.
C10_Witness ==
    /\ owner = "Item"
    /\ KindsOf(instances) = <<"Creation", "Update", "Deletion", "Restoration">>
    /\ version_at(instances, 2) = Version_new(0, 1, 1)
    /\ call.op = "restore"
    /\ result = "Ok"

\* Lexicographic order of (major, minor, patch).
VersionLess(a, b) ==
    \/ a.major < b.major
    \/ a.major = b.major /\ a.minor < b.minor
    \/ a.major = b.major /\ a.minor = b.minor /\ a.patch < b.patch

\* C11: in every history of an Item or Tag each entry's version is strictly
\* greater, in lexicographic order, than the version of the entry before
\* it, so that no two entries share a version.
C11_VersionsIncrease ==
    IsEntity =>
        /\ \A i \in 1..(Len(instances) - 1) :
               VersionLess(version_at(instances, i), version_at(instances, i + 1))
        /\ \A i \in 1..Len(instances) : \A j \in 1..Len(instances) :
               i # j => version_at(instances, i) # version_at(instances, j)

EntityCallOk ==
    IsEntity /\ call.op \in {"edit", "delete", "restore"} /\ result = "Ok"

\* C12: a Tag made by Tag::new is at 1.0.0, and every successful edit,
\* delete or restore of a Tag raises the major of the latest version by
\* exactly one with minor = patch = 0: after n successful calls the latest
\* version is (n + 1, 0, 0).
C12_TagMajorCounts ==
    owner = "Tag" =>
        /\ call.op = "new" => version_at(instances, 1) = Version_new(1, 0, 0)
        /\ EntityCallOk =>
               version_at(instances, Len(instances)) =
                   Version_new(version_at(before, Len(before)).major + 1, 0, 0)

\* C13: the token that to_string gives for a FileName, of a timestamp with
\* a negative or a positive offset and of a Version, is read back by
\* from_string as Ok of a FileName with that timestamp and that version.
C13_FileNameRoundTrip ==
    (token.given = "to_string" /\ decoded.status # "none") =>
        /\ decoded.status = "Ok"
        /\ decoded.value.datetime = fname.datetime
        /\ decoded.value.version = fname.version

\* A token with -PLUS- and a fraction without its trailing zeros, read back.
C13_Witness ==
    /\ token.given = "to_string"
    /\ decoded.status = "Ok"
    /\ fname.datetime.offset_sign = "+"
    /\ fname.datetime.offset_minute = 30
    /\ fname.datetime.nanosecond = 500000000
    /\ fraction_trimmed

MalformedVersions == {"missing_field", "extra_field", "non_integer"}

\* C14: for a token with a well-formed timestamp part and a malformed
\* version part (a wrong number of fields, a field that is not an integer)
\* from_string returns an error value to its caller; it does not abort.
C14_MalformedVersionIsAnError ==
    (token.given \in MalformedVersions /\ decoded.status # "none") =>
        decoded.status \in {"FilenameError", "FileUrlDateTime", "InvalidVersion"}

\* Whether cutting chars at its first _ gives two parts, neither empty.
TwoPartsAtFirstUnderscore(chars) ==
    \E i \in 2..(Len(chars) - 1) :
        /\ chars[i] = "_"
        /\ \A j \in 1..(i - 1) : chars[j] # "_"

\* C15: from_string returns FilenameError exactly when cutting the token at
\* its first _ does not give two non-empty parts (no _, an empty timestamp
\* part, an empty version part), and then no other error.
C15_MalformedTokenError ==
    decoded.status # "none" =>
        (decoded.status = "FilenameError" <=> ~TwoPartsAtFirstUnderscore(token.chars))

\* A decimal text of a u16 without sign or leading zero.
IsCanonicalComponent(c) ==
    /\ c # <<>>
    /\ \A i \in 1..Len(c) : is_digit(c[i])
    /\ Len(c) > 1 => c[1] # "0"
    /\ digits_value(c) <= U16_MAX

IsCanonicalText(s) ==
    /\ Len(split(s, ".")) = 3
    /\ \A i \in 1..3 : IsCanonicalComponent(split(s, ".")[i])

\* C16: Version::from_string gives back v from to_string(v) and from
\* file_safe_string(v); and to_string of what it gives for a canonical
\* dotted text of three integers is that text.
C16_VersionTextRoundTrip ==
    /\ (text.form \in {"to_string", "file_safe_string"} /\ reparsed.status # "none")
           => reparsed = [status |-> "Ok", value |-> fname.version]
    /\ (text.form = "given" /\ IsCanonicalText(text.chars) /\ reparsed.status # "none")
           => reparsed.status = "Ok"
    /\ (text.form = "given" /\ IsCanonicalText(text.chars) /\ retext # <<>>)
           => retext = text.chars

\* The canonical text 65535.12.0, parsed and formatted again.
C16_Witness ==
    /\ text.form = "given"
    /\ IsCanonicalText(text.chars)
    /\ reparsed = [status |-> "Ok", value |-> Version_new(U16_MAX, 12, 0)]
    /\ retext = text.chars

\* How many entries of the sequence l are x.
Occurrences(l, x) == Cardinality({i \in 1..Len(l) : l[i] = x})

Constructed == owner = "InstanceList" /\ call.op = "new"

\* C17: InstanceList::new on a vector in any order gives a list of exactly
\* the payloads of the vector (the same length, each payload as often as in
\* the vector), whose earliest() has the least datetime and whose latest()
\* has the greatest; no payload is rejected.
C17_SortedConstruction ==
    Constructed =>
        /\ len(instances) = Len(call.values)
        /\ \A x \in TestPayloads :
               Occurrences(instances, x) = Occurrences(call.values, x)
        /\ result = "Ok"
        /\ call.values = <<>> => earliest(instances) = None /\ latest(instances) = None
        /\ call.values # <<>> =>
               /\ earliest(instances) # None
               /\ latest(instances) # None
               /\ \A i \in 1..Len(call.values) :
                      /\ get_instance(earliest(instances)[1]).datetime
                             <= get_instance(call.values[i]).datetime
                      /\ get_instance(latest(instances)[1]).datetime
                             >= get_instance(call.values[i]).datetime

\* A vector of three payloads, a later one before an earlier one.
C17_Witness ==
    /\ Constructed
    /\ Len(call.values) = 3
    /\ get_instance(call.values[1]).datetime > get_instance(call.values[3]).datetime
    /\ len(instances) = 3

C19_HistoryNeverEmpty ==
    IsEntity =>
        /\ len(instances) >= 1
        /\ latest(instances) # None
        /\ result \notin {"EditEmptyItem", "RetrieveEmptyItem",
                           "EditEmptyTag", "RetrieveEmptyTag"}
        /\ owner = "Item" => Item_current_file_path(instances).res = "Ok"
        /\ owner = "Tag" => Tag_get_value(instances).res = "Ok"

\* A deleted Item whose edit was rejected, by the list and not for emptiness.
C19_Witness ==
    /\ owner = "Item"
    /\ call.op = "edit"
    /\ result = "Instance(CannotAddToDeletedInstanceList)"
    /\ len(instances) = len(before)
    /\ len(instances) >= 2

\* C20: Tag::get_value gives the value of Tag::new until an edit succeeds,
\* then the value of the latest successful edit; delete and restore,
\* accepted or rejected, and a rejected edit leave it as it was, so every
\* Deletion and Restoration entry carries the value of the entry before.
C20_TagValueCarried ==
    owner = "Tag" =>
        /\ call.op = "new" => Tag_get_value(instances).value = Some(call.value)
        /\ (call.op = "edit" /\ result = "Ok") =>
               Tag_get_value(instances).value = Some(call.value)
        /\ (call.op = "edit" /\ result # "Ok") =>
               Tag_get_value(instances) = Tag_get_value(before)
        /\ call.op \in {"delete", "restore"} =>
               Tag_get_value(instances) = Tag_get_value(before)
        /\ \A i \in 2..Len(instances) :
               kind_at(instances, i) \in {"Deletion", "Restoration"} =>
                   instances[i].value = instances[i - 1].value

\* A Tag made with one value, edited to the other, deleted and restored.
C20_Witness ==
    /\ owner = "Tag"
    /\ KindsOf(instances) = <<"Creation", "Update", "Deletion", "Restoration">>
    /\ call.op = "restore"
    /\ result = "Ok"
    /\ instances[1].value = "Test Tag"
    /\ instances[2].value = "Test Tag 2"
    /\ Tag_get_value(instances) = [res |-> "Ok", value |-> Some("Test Tag 2")]

\* The payload of the last add is not earlier than the entry that was
\* latest, or there was none.
AddedInOrder ==
    \/ before = <<>>
    \/ get_instance(call.payload).datetime >= datetime_at(before, Len(before))

\* The deletion lock lets the payload of the last add through.
AddedUnlocked ==
    \/ before = <<>>
    \/ kind_at(before, Len(before)) # "Deletion"
    \/ get_instance(call.payload).instance_type = "Restoration"

\* C21: add returns Ok exactly when the list is empty or the new datetime
\* is not earlier than the latest one (an equal one is accepted), and the
\* latest entry is not a Deletion or the new kind is Restoration.  The
\* datetime is checked first: a payload that is earlier and also locked out
\* gets DatetimeIncorrectlyOrdered, not CannotAddToDeletedInstanceList.
C21_AcceptanceRule ==
    AddCalled =>
        /\ result = "Ok" <=> (AddedInOrder /\ AddedUnlocked)
        /\ ~AddedInOrder => result = "DatetimeIncorrectlyOrdered"
        /\ (AddedInOrder /\ ~AddedUnlocked) =>
               result = "CannotAddToDeletedInstanceList"

\* An earlier Update offered to a list whose latest entry is a Deletion.
C21_Witness ==
    /\ AddCalled
    /\ ~AddedInOrder
    /\ ~AddedUnlocked
    /\ result = "DatetimeIncorrectlyOrdered"

EntityCalled == IsEntity /\ call.op \in {"edit", "delete", "restore"}

\* The clock read of the last call is earlier than the entry that was latest.
ClockSteppedBack == EntityCalled /\ clock < datetime_at(before, Len(before))

LockKept ==
    \A i \in (Len(call.values) + 1)..Len(instances) :
        (i > 1 /\ kind_at(instances, i - 1) = "Deletion") =>
            kind_at(instances, i) = "Restoration"

\* Both callers passed the checks against the same latest() and both pushed.
BothPushed ==
    /\ \A c \in Callers : callers[c].pc = "done" /\ callers[c].res = "Ok"
    /\ callers[1].seen = callers[2].seen
    /\ Len(instances) = Len(call.values) + 2

C24_ChildVersionGreater ==
    child.op = "create_child_version" =>
        /\ child.status = "Ok"
        /\ child.value.major \in 0..U16_MAX
        /\ child.value.minor \in 0..U16_MAX
        /\ child.value.patch \in 0..U16_MAX
        /\ VersionLess(child.self, child.value)
        /\ version = child.self

====
